---------------------------- MODULE Spec2Model ----------------------------
(***************************************************************************)
(* A model of pocket_dictionary: the grouped word store of main.py        *)
(* (groups.json), its commands, and      the weighted word test with its       *)
(* seen-definitions bookkeeping.                                          *)
(*                                                                         *)
(* Strings the program transforms (words, guesses) are sequences of       *)
(* one-character strings, so that lower() and strip() are computed.       *)
(* A definition string "(pos) text" is the pair <<pos, text>>.            *)
(* A Python dict is a function; the JSON document on disk is a set of     *)
(* <<key, value>> members, so that dump and load are conversions.         *)
(***************************************************************************)
EXTENDS Integers, Sequences, FiniteSets, TLC

(***************************************************************************)
(* Program constants (main.py:14-16).                                      *)
(***************************************************************************)
DEFAULT_WEIGHT == 5
WEIGHT_INCREASE == 2
WEIGHT_DECREASE == 1

(***************************************************************************)
(* Bounds of the model.                                                    *)
(***************************************************************************)
\* answers scored over a whole run of the full program (all sessions together)
MaxAnswers == 1
\* commands that write the store over a whole run of the full program
MaxCommands == 3
\* answers scored over a whole run of the test-session specification
DeepAnswers == 5
\* answers scored over a whole run of the two-invocation specification
RaceAnswers == 1
\* the largest weight a word starts with in the specification of the draw
MaxWeight == 9
\* answers scored over a whole run of the specification of varying lookups
VaryAnswers == 3
\* answers scored, and words added or removed, over a whole run of the
\* single-list program
ListAnswers == 1
ListCommands == 4

\* --group not given; `if group_name:` treats the empty string the same way
NoGroup == ""

(***************************************************************************)
(* Inputs.                                                                 *)
(***************************************************************************)
\* group names given on the command line
GroupNames == {"default", "g1"}

\* word arguments as typed on the command line
WordArgs == {<<" ", "A">>, <<"b">>}

\* the word of the test-session specification
DeepWords == {<<"a">>}

\* guesses as typed at the prompt
Guesses == {<<"a">>, <<"A", " ">>, <<"b">>}

\* the words named on the command line, as stored
StoredWords == {<<"a">>, <<"b">>}

\* the --group argument of test and random: a name, or not given
GroupArgs == GroupNames \cup {NoGroup}

(***************************************************************************)
(* str.lower() and str.strip() (main.py:42, 57, 129, 265).                 *)
(***************************************************************************)
LowerChar(c) ==
    CASE c = "A" -> "a"
      [] c = "B" -> "b"
      [] OTHER -> c

Lower(s) == [i \in 1..Len(s) |-> LowerChar(s[i])]

RECURSIVE LStrip(_)
LStrip(s) ==
    IF s # <<>> /\ Head(s) = " " THEN LStrip(Tail(s)) ELSE s

RECURSIVE RStrip(_)
RStrip(s) ==
    IF s # <<>> /\ s[Len(s)] = " " THEN RStrip(SubSeq(s, 1, Len(s) - 1)) ELSE s

Strip(s) == RStrip(LStrip(s))

\* a variant of Normalize that forgets strip()
LowerOnly(s) == Lower(s)

\* word.lower().strip()
Normalize(s) == Strip(Lower(s))

(***************************************************************************)
(* The dictionary API (external).  A response is an HTTP failure or the    *)
(* decoded JSON body: a list of entries, each with its meanings.           *)
(***************************************************************************)
HttpError == [ok |-> FALSE, data |-> <<>>]

Body(meanings) == [ok |-> TRUE, data |-> <<[meanings |-> meanings]>>]

Meaning(pos, defs) == [partOfSpeech |-> pos, definitions |-> defs]

\* what the API may answer for a word: "a" always has the same three
\* definitions; "b" may fail, come back empty, or list a definition twice
Responses(word) ==
    IF word = <<"a">>
    THEN {Body(<<Meaning("noun", <<"x", "y">>), Meaning("verb", <<"x">>)>>)}
    ELSE {HttpError,
          [ok |-> TRUE, data |-> <<>>],
          Body(<<>>),
          Body(<<Meaning("noun", <<"x", "y">>)>>),
          Body(<<Meaning("noun", <<"y", "y">>)>>)}

RECURSIVE FlattenMeanings(_)
FlattenMeanings(meanings) ==
    IF meanings = <<>> THEN <<>>
    ELSE LET m == Head(meanings)
         IN  [i \in 1..Len(m.definitions) |-> <<m.partOfSpeech, m.definitions[i]>>]
             \o FlattenMeanings(Tail(meanings))

\* Python's None, and a returned list
None == [some |-> FALSE, list |-> <<>>]

List(l) == [some |-> TRUE, list |-> l]

\* get_all_definitions: the list of "(pos) definition" strings, or None when
\* the request fails (RequestException) or the body has no entry (IndexError)
GetAllDefinitions(api_response) ==
    IF ~api_response.ok THEN None
    ELSE IF api_response.data = <<>> THEN None
    ELSE List(FlattenMeanings(api_response.data[1].meanings))

\* `not all_definitions`: None and the empty list are both falsy
Falsy(all_definitions) == ~all_definitions.some \/ all_definitions.list = <<>>

(***************************************************************************)
(* The store: a dict of groups, each a dict of word entries.               *)
(***************************************************************************)
EmptyDict == <<>>

Put(dict, key, value) ==
    [k \in DOMAIN dict \cup {key} |-> IF k = key THEN value ELSE dict[k]]

Del(dict, key) == [k \in DOMAIN dict \ {key} |-> dict[k]]

\* a variant of NewEntry that starts a word above the default weight
RaisedEntry == [weight |-> DEFAULT_WEIGHT + WEIGHT_INCREASE, seen_definitions |-> <<>>]

\* the entry of a newly added word (main.py:47)
NewEntry == [weight |-> DEFAULT_WEIGHT, seen_definitions |-> <<>>]

(***************************************************************************)
(* groups.json.  The file is absent, or holds a JSON document: an object   *)
(* is the set of its <<key, value>> members.                               *)
(***************************************************************************)
Absent == [kind |-> "absent", doc |-> {}]

\* a variant of JsonDump that leaves out the groups without words
JsonDumpSkipsEmpty(groups) ==
    {<<g, {<<w, groups[g][w]>> : w \in DOMAIN groups[g]}>> :
        g \in {h \in DOMAIN groups : DOMAIN groups[h] # {}}}

JsonDump(groups) ==
    {<<g, {<<w, groups[g][w]>> : w \in DOMAIN groups[g]}>> : g \in DOMAIN groups}

JsonObject(members) ==
    [k \in {m[1] : m \in members} |-> (CHOOSE m \in members : m[1] = k)[2]]

JsonLoad(doc) ==
    LET outer == JsonObject(doc)
    IN  [g \in DOMAIN outer |-> JsonObject(outer[g])]

\* load_groups: the stored groups, or {"default": {}} when the file is
\* missing or does not parse
LoadGroups(file) ==
    IF file.kind = "json" THEN JsonLoad(file.doc)
    ELSE [g \in {"default"} |-> EmptyDict]

\* the file holds bytes that are not text in the encoding open() reads with,
\* as after damage to the disk or a write by another program
Undecodable == [kind |-> "undecodable", doc |-> {}]

\* load_groups, lines 28-30: f.read() raises UnicodeDecodeError, which is a
\* ValueError but not a JSONDecodeError, so the except clause lets it through
LoadRaises(file) == file.kind = "undecodable"

\* save_groups: the file after open(GROUP_FILE, 'w') and json.dump
SaveGroups(groups) == [kind |-> "json", doc |-> JsonDump(groups)]

\* the file while save_groups is writing it: open(GROUP_FILE, 'w') has
\* truncated it and json.dump has written at most a prefix of the document
Truncated == [kind |-> "partial", doc |-> {}]

(***************************************************************************)
(* The commands, as functions of the loaded groups.                        *)
(***************************************************************************)
\* add_word_to_group, lines 44-47: the groups dict after the call
AddWordToGroup(groups0, word, group_name) ==
    LET groups1 == IF group_name \notin DOMAIN groups0
                   THEN Put(groups0, group_name, EmptyDict)
                   ELSE groups0
    IN  IF word \notin DOMAIN groups1[group_name]
        THEN Put(groups1, group_name, Put(groups1[group_name], word, NewEntry))
        ELSE groups1

\* a variant of AddWordSaves: the save is not inside the `if`
AddWordAlwaysSaves(groups0, word, group_name) == TRUE

\* add_word_to_group, line 46: whether the call saves
AddWordSaves(groups0, word, group_name) ==
    group_name \notin DOMAIN groups0 \/ word \notin DOMAIN groups0[group_name]

\* remove_word_from_group, line 59
RemoveWordFinds(groups0, word, group_name) ==
    group_name \in DOMAIN groups0 /\ word \in DOMAIN groups0[group_name]

\* a variant of RemoveWordFromGroup that deletes the group with the word
RemoveWordDropsGroup(groups0, word, group_name) == Del(groups0, group_name)

\* remove_word_from_group, line 60
RemoveWordFromGroup(groups0, word, group_name) ==
    Put(groups0, group_name, Del(groups0[group_name], word))

\* the pool of a test or random session (main.py:171-179, 223-231): the
\* groups the session may run on; empty when the session reports and returns
PoolGroups(groups0, group_name) ==
    IF group_name # NoGroup
    THEN IF group_name \notin DOMAIN groups0 \/ DOMAIN groups0[group_name] = {}
         THEN {}
         ELSE {group_name}
    ELSE DOMAIN groups0

(***************************************************************************)
(* State.                                                                  *)
(***************************************************************************)
VARIABLES
    disk,               \* groups.json
    pc,                 \* where the running invocation is; "idle": none runs
    cmd,                \* the command line of the current or last invocation
    out,                \* the last message printed
    groups,             \* the invocation's groups dict
    test_group,         \* the group weights_data refers to
    chosen_word,
    response,           \* what the API answered for chosen_word
    definition_to_show,
    typed,              \* the line read by input() at the prompt
    correct_count,
    incorrect_count,
    answers_left,       \* answers the run may still score
    commands_left,      \* store-writing commands the run may still start
    shown_cycle,        \* observer: definitions of the watched word displayed
                        \* since all of them had last been displayed
    recorded_cycle,     \* observer: definitions of the watched word recorded
                        \* since all of them had last been recorded
    other_pc,           \* where a second, concurrent invocation is
    other_groups,       \* the groups dict of the second invocation
    word_file,          \* pocket_dictionary.py: word.txt
    weight_file,        \* pocket_dictionary.py: weights.json
    weights             \* pocket_dictionary.py: the weights dict of word_test

vars == <<disk, pc, cmd, out, groups, test_group, chosen_word, response,
          definition_to_show, typed, correct_count, incorrect_count,
          answers_left, commands_left, shown_cycle, recorded_cycle,
          other_pc, other_groups, word_file, weight_file, weights>>

observer == <<shown_cycle, recorded_cycle>>

\* the second invocation
other == <<other_pc, other_groups>>

\* the single-list program, pocket_dictionary.py
single_list == <<word_file, weight_file, weights>>

\* word.txt and weights.json before the single-list program has run
NoFile == [exists |-> FALSE, lines |-> <<>>]

session == <<test_group, chosen_word, response, definition_to_show, typed,
             correct_count, incorrect_count>>

question == <<response, definition_to_show, typed>>

NoWord == <<>>
NoDefinition == <<>>
NoResponse == [ok |-> FALSE, data |-> <<"no request">>]
NoInput == <<>>

\* the command line of an invocation; of a quiz or test, the group it runs on
Cmd(command, word, group_name) ==
    [command |-> command, word |-> word, group |-> group_name]

NoCmd == Cmd("none", NoWord, NoGroup)

\* a printed message, with the word and the group it names
Msg(text, word, group_name) ==
    [text |-> text, word |-> word, group |-> group_name]

Init ==
    /\ disk = Absent
    /\ pc = "idle"
    /\ cmd = NoCmd
    /\ out = Msg("", NoWord, NoGroup)
    /\ groups = EmptyDict
    /\ test_group = NoGroup
    /\ chosen_word = NoWord
    /\ response = NoResponse
    /\ definition_to_show = NoDefinition
    /\ typed = NoInput
    /\ correct_count = 0
    /\ incorrect_count = 0
    /\ answers_left = MaxAnswers
    /\ commands_left = MaxCommands
    /\ shown_cycle = {}
    /\ recorded_cycle = {}
    /\ other_pc = "idle"
    /\ other_groups = EmptyDict
    /\ word_file = NoFile
    /\ weight_file = Absent
    /\ weights = EmptyDict

\* the process exits: its arguments and locals are gone
Exit ==
    /\ pc' = "idle"
    /\ cmd' = NoCmd
    /\ groups' = EmptyDict
    /\ test_group' = NoGroup
    /\ chosen_word' = NoWord
    /\ response' = NoResponse
    /\ definition_to_show' = NoDefinition
    /\ typed' = NoInput
    /\ correct_count' = 0
    /\ incorrect_count' = 0

\* a command that returns without saving: it prints and exits
Return(message) ==
    /\ out' = message
    /\ Exit
    /\ UNCHANGED <<disk, answers_left, commands_left>>

\* a command that reaches save_groups(new_groups): the file is opened for
\* writing; the dump and the message follow in FinishSave
BeginSave(command, new_groups) ==
    /\ commands_left > 0
    /\ pc' = "saving"
    /\ cmd' = command
    /\ groups' = new_groups
    /\ disk' = Truncated
    /\ commands_left' = commands_left - 1
    /\ UNCHANGED <<out, session, answers_left>>

\* add <word> [--group]
AddWord(raw, group_name) ==
    /\ pc = "idle"
    /\ LET word == Normalize(raw)
           groups0 == LoadGroups(disk)
       IN  IF AddWordSaves(groups0, word, group_name)
           THEN BeginSave(Cmd("add", raw, group_name),
                          AddWordToGroup(groups0, word, group_name))
           ELSE Return(Msg("already_in_group", word, group_name))

\* remove <word> --group
RemoveWord(raw, group_name) ==
    /\ pc = "idle"
    /\ LET word == Normalize(raw)
           groups0 == LoadGroups(disk)
       IN  IF RemoveWordFinds(groups0, word, group_name)
           THEN BeginSave(Cmd("remove", raw, group_name),
                          RemoveWordFromGroup(groups0, word, group_name))
           ELSE Return(Msg("word_not_found", word, group_name))

\* a variant of AddGroup that assigns the empty dict whether or not the group
\* exists
AddGroupResets(group_name) ==
    /\ pc = "idle"
    /\ LET groups0 == LoadGroups(disk)
       IN  BeginSave(Cmd("add_group", NoWord, group_name),
                     Put(groups0, group_name, EmptyDict))

\* add_group <group>
AddGroup(group_name) ==
    /\ pc = "idle"
    /\ LET groups0 == LoadGroups(disk)
       IN  IF group_name \notin DOMAIN groups0
           THEN BeginSave(Cmd("add_group", NoWord, group_name),
                          Put(groups0, group_name, EmptyDict))
           ELSE Return(Msg("group_exists", NoWord, group_name))

\* remove_group <group>
RemoveGroup(group_name) ==
    /\ pc = "idle"
    /\ LET groups0 == LoadGroups(disk)
       IN  IF group_name \in DOMAIN groups0
           THEN BeginSave(Cmd("remove_group", NoWord, group_name),
                          Del(groups0, group_name))
           ELSE Return(Msg("group_not_found", NoWord, group_name))

\* lookup <word> [--group]: the definitions are printed and the word is added;
\* a failed request or a body without an entry prints an error and adds nothing
LookupWord(raw, group_name, api_response) ==
    /\ pc = "idle"
    /\ LET word == Normalize(raw)
           groups0 == LoadGroups(disk)
       IN  IF ~api_response.ok THEN Return(Msg("lookup_http_error", word, NoGroup))
           ELSE IF api_response.data = <<>>
           THEN Return(Msg("lookup_parse_error", NoWord, NoGroup))
           ELSE IF AddWordSaves(groups0, word, group_name)
           THEN BeginSave(Cmd("add", raw, group_name),
                          AddWordToGroup(groups0, word, group_name))
           ELSE Return(Msg("already_in_group", word, group_name))

\* the message a command prints after save_groups returns
SavedMessage(command) ==
    CASE command.command = "add" ->
             Msg("added", Normalize(command.word), command.group)
      [] command.command = "remove" ->
             Msg("removed", Normalize(command.word), command.group)
      [] command.command = "add_group" -> Msg("group_added", NoWord, command.group)
      [] command.command = "remove_group" -> Msg("group_removed", NoWord, command.group)
      [] OTHER -> Msg("keep_practicing", NoWord, NoGroup)

\* json.dump completes and the file is closed; the command prints and exits
FinishSave ==
    /\ pc = "saving"
    /\ disk' = SaveGroups(groups)
    /\ out' = SavedMessage(cmd)
    /\ Exit
    /\ UNCHANGED <<answers_left, commands_left>>

\* the process is interrupted or killed while save_groups is writing
InterruptSave ==
    /\ pc = "saving"
    /\ out' = Msg("traceback", NoWord, NoGroup)
    /\ Exit
    /\ UNCHANGED <<disk, answers_left, commands_left>>

(***************************************************************************)
(* random: the presentation quiz (random_word_quiz).                       *)
(***************************************************************************)
RandomWordQuiz(group_name) ==
    /\ pc = "idle"
    /\ LET groups0 == LoadGroups(disk)
       IN  IF DOMAIN groups0 = {} THEN Return(Msg("list_empty", NoWord, NoGroup))
           ELSE IF PoolGroups(groups0, group_name) = {}
           THEN Return(Msg("group_empty", NoWord, group_name))
           ELSE \E g \in PoolGroups(groups0, group_name) :
                    IF DOMAIN groups0[g] = {}
                    THEN Return(Msg("no_words", NoWord, g))
                    ELSE /\ pc' = "quiz"
                         /\ cmd' = Cmd("random", NoWord, g)
                         /\ out' = Msg("quiz_started", NoWord, NoGroup)
                         /\ groups' = groups0
                         /\ test_group' = g
                         /\ chosen_word' = NoWord
                         /\ UNCHANGED <<disk, question, correct_count,
                                        incorrect_count, answers_left, commands_left>>

\* one turn of the quiz loop: random.choice(words), then Enter
QuizWord ==
    /\ pc = "quiz"
    /\ \E w \in DOMAIN groups[test_group] : chosen_word' = w
    /\ out' = Msg("quiz_word", chosen_word', NoGroup)
    /\ UNCHANGED <<disk, pc, cmd, groups, test_group, question,
                   correct_count, incorrect_count, answers_left, commands_left>>

\* KeyboardInterrupt in the quiz loop: no save
QuizInterrupt ==
    /\ pc = "quiz"
    /\ out' = Msg("quiz_finished", NoWord, NoGroup)
    /\ Exit
    /\ UNCHANGED <<disk, answers_left, commands_left>>

(***************************************************************************)
(* test: the scoring quiz (word_test).                                     *)
(***************************************************************************)
weights_data == groups[test_group]

\* a variant of WordTest without the check of line 235
WordTestUnchecked(group_name) ==
    /\ pc = "idle"
    /\ LET groups0 == LoadGroups(disk)
       IN  IF DOMAIN groups0 = {} THEN Return(Msg("list_empty", NoWord, NoGroup))
           ELSE IF PoolGroups(groups0, group_name) = {}
           THEN Return(Msg("group_empty", NoWord, group_name))
           ELSE \E g \in PoolGroups(groups0, group_name) :
                    IF FALSE
                    THEN Return(Msg("no_words", NoWord, g))
                    ELSE /\ pc' = "selecting"
                         /\ cmd' = Cmd("test", NoWord, g)
                         /\ out' = Msg("test_started", NoWord, NoGroup)
                         /\ groups' = groups0
                         /\ test_group' = g
                         /\ chosen_word' = NoWord
                         /\ correct_count' = 0
                         /\ incorrect_count' = 0
                         /\ UNCHANGED <<disk, question, answers_left, commands_left>>

\* lines 218-241: load, resolve the pool, and enter the loop or return
WordTest(group_name) ==
    /\ pc = "idle"
    /\ LET groups0 == LoadGroups(disk)
       IN  IF DOMAIN groups0 = {} THEN Return(Msg("list_empty", NoWord, NoGroup))
           ELSE IF PoolGroups(groups0, group_name) = {}
           THEN Return(Msg("group_empty", NoWord, group_name))
           ELSE \E g \in PoolGroups(groups0, group_name) :
                    IF DOMAIN groups0[g] = {}
                    THEN Return(Msg("no_words", NoWord, g))
                    ELSE /\ pc' = "selecting"
                         /\ cmd' = Cmd("test", NoWord, g)
                         /\ out' = Msg("test_started", NoWord, NoGroup)
                         /\ groups' = groups0
                         /\ test_group' = g
                         /\ chosen_word' = NoWord
                         /\ correct_count' = 0
                         /\ incorrect_count' = 0
                         /\ UNCHANGED <<disk, question, answers_left, commands_left>>

\* line 247: random.choices draws a word of positive weight
Candidates(data) == {w \in DOMAIN data : data[w].weight > 0}

\* line 245: list(weights_data.keys()); the keys are taken in alphabetical
\* order here, the number of draws that give a word being the same in any
\* order
WordList(data) == SelectSeq(<< <<"a">>, <<"b">> >>, LAMBDA w : w \in DOMAIN data)

\* random.choices: the running totals of the weights, accumulate(weights)
RECURSIVE CumWeights(_, _)
CumWeights(data, i) ==
    IF i = 0 THEN 0
    ELSE CumWeights(data, i - 1) + data[WordList(data)[i]].weight

Total(data) == CumWeights(data, Len(WordList(data)))

\* a variant of Choices that ignores the weights
ChoicesUniform(data, x) == WordList(data)[(x % Len(WordList(data))) + 1]

\* random.choices(word_list, weights, k=1)[0]: the word at
\* bisect(cum_weights, random() * total), where x is the integer part of
\* random() * total, a number of 0..total-1; the totals being integers, the
\* fraction of the product does not change the result
Choices(data, x) ==
    WordList(data)[1 + Cardinality({i \in 1..Len(WordList(data)) :
                                       CumWeights(data, i) <= x})]

\* lines 245-248: draw a word and send the request for its definitions
Select ==
    /\ pc = "selecting"
    /\ chosen_word' \in {Choices(weights_data, x) : x \in 0..(Total(weights_data) - 1)}
    /\ pc' = "presenting"
    /\ response' = NoResponse
    /\ UNCHANGED <<disk, cmd, out, groups, test_group, definition_to_show, typed,
                   correct_count, incorrect_count, answers_left, commands_left>>

\* a variant of Unseen without the filter
UnseenUnfiltered(all_definitions, seen_definitions) == all_definitions

\* line 254: the definitions not yet seen, in the order of all_definitions
Unseen(all_definitions, seen_definitions) ==
    SelectSeq(all_definitions,
              LAMBDA d : \A i \in 1..Len(seen_definitions) : seen_definitions[i] # d)

\* a variant of Choosable that ignores what was seen
ChoosableAny(all_definitions, seen_definitions) == all_definitions

\* lines 255-257: the definitions to choose from
Choosable(all_definitions, seen_definitions) ==
    IF Unseen(all_definitions, seen_definitions) = <<>>
    THEN all_definitions
    ELSE Unseen(all_definitions, seen_definitions)

\* a variant of SeenAfterReset that never empties the list
SeenKept(all_definitions, seen_definitions) == seen_definitions

\* lines 255-256: seen_definitions after the reset, if any
SeenAfterReset(all_definitions, seen_definitions) ==
    IF Unseen(all_definitions, seen_definitions) = <<>>
    THEN <<>>
    ELSE seen_definitions

\* a variant of SetEntry that assigns the field in every entry of the dict
SetEntryAll(data, word, field, value) ==
    [w \in DOMAIN data |-> [data[w] EXCEPT ![field] = value]]

SetEntry(data, word, field, value) ==
    [data EXCEPT ![word] = [data[word] EXCEPT ![field] = value]]

\* a variant of Skip that counts the skipped word as a wrong answer
SkipCounted ==
    /\ out' = Msg("skipping", chosen_word, NoGroup)
    /\ pc' = "selecting"
    /\ incorrect_count' = incorrect_count + 1
    /\ UNCHANGED <<groups, definition_to_show, correct_count>>

\* lines 249-251: nothing to show; the loop continues with the next draw
Skip ==
    /\ out' = Msg("skipping", chosen_word, NoGroup)
    /\ pc' = "selecting"
    /\ UNCHANGED <<groups, definition_to_show, correct_count, incorrect_count>>

\* lines 253-263: reset seen_definitions if nothing is unseen, choose and show
Show(definitions) ==
    LET seen_definitions == weights_data[chosen_word].seen_definitions
    IN  /\ groups' = [groups EXCEPT ![test_group] =
                        SetEntry(weights_data, chosen_word, "seen_definitions",
                                 SeenAfterReset(definitions, seen_definitions))]
        /\ \E i \in 1..Len(Choosable(definitions, seen_definitions)) :
               definition_to_show' = Choosable(definitions, seen_definitions)[i]
        /\ out' = Msg("definition", NoWord, NoGroup)
        /\ pc' = "awaiting"
        /\ UNCHANGED <<correct_count, incorrect_count>>

\* lines 248-263: the answer of the API arrives; skip, or show a definition
Present(api_response) ==
    /\ pc = "presenting"
    /\ response' = api_response
    /\ LET all_definitions == GetAllDefinitions(api_response)
       IN  IF Falsy(all_definitions) THEN Skip ELSE Show(all_definitions.list)
    /\ UNCHANGED <<disk, cmd, test_group, chosen_word, typed, answers_left,
                   commands_left>>

\* lines 270 and 274: the weight after a guess
Max(a, b) == IF a >= b THEN a ELSE b

\* a variant of NewWeight without the floor
NewWeightNoFloor(weight, correct) ==
    IF correct THEN weight - WEIGHT_DECREASE ELSE weight + WEIGHT_INCREASE

NewWeight(weight, correct) ==
    IF correct THEN Max(1, weight - WEIGHT_DECREASE) ELSE weight + WEIGHT_INCREASE

\* lines 265-274: the guess is read and the counter and the weight updated
Answer(raw) ==
    /\ pc = "awaiting"
    /\ answers_left > 0
    /\ typed' = raw
    /\ LET guess == Normalize(raw)
           correct == guess = chosen_word
       IN  /\ correct_count' = IF correct THEN correct_count + 1 ELSE correct_count
           /\ incorrect_count' = IF correct THEN incorrect_count ELSE incorrect_count + 1
           /\ out' = Msg(IF correct THEN "correct" ELSE "incorrect", NoWord, NoGroup)
           /\ groups' = [groups EXCEPT ![test_group] =
                           SetEntry(weights_data, chosen_word, "weight",
                                    NewWeight(weights_data[chosen_word].weight, correct))]
    /\ answers_left' = answers_left - 1
    /\ pc' = "scoring"
    /\ UNCHANGED <<disk, cmd, test_group, chosen_word, response, definition_to_show,
                   commands_left>>

\* a variant of Record that writes the file after every answer
RecordAndSave ==
    /\ pc = "scoring"
    /\ groups' = [groups EXCEPT ![test_group] =
                    SetEntry(weights_data, chosen_word, "seen_definitions",
                             Append(weights_data[chosen_word].seen_definitions,
                                    definition_to_show))]
    /\ disk' = SaveGroups(groups')
    /\ pc' = "selecting"
    /\ chosen_word' = NoWord
    /\ response' = NoResponse
    /\ definition_to_show' = NoDefinition
    /\ typed' = NoInput
    /\ UNCHANGED <<cmd, out, test_group, correct_count, incorrect_count,
                   answers_left, commands_left>>

\* line 276: the shown definition is recorded
Record ==
    /\ pc = "scoring"
    /\ groups' = [groups EXCEPT ![test_group] =
                    SetEntry(weights_data, chosen_word, "seen_definitions",
                             Append(weights_data[chosen_word].seen_definitions,
                                    definition_to_show))]
    /\ pc' = "selecting"
    /\ chosen_word' = NoWord
    /\ response' = NoResponse
    /\ definition_to_show' = NoDefinition
    /\ typed' = NoInput
    /\ UNCHANGED <<disk, cmd, out, test_group, correct_count, incorrect_count,
                   answers_left, commands_left>>

LoopStates == {"selecting", "presenting", "awaiting", "scoring"}

\* a variant of Cancel whose handler reloads the groups before saving
CancelReloads ==
    /\ pc \in LoopStates
    /\ pc' = "finalizing"
    /\ out' = Msg(IF correct_count + incorrect_count > 0 THEN "summary" ELSE "no_answers",
                  NoWord, NoGroup)
    /\ groups' = LoadGroups(disk)
    /\ UNCHANGED <<disk, cmd, session, answers_left, commands_left>>

\* a variant of Cancel that scores an unanswered question as wrong
CancelScoresWrong ==
    /\ pc \in LoopStates
    /\ pc' = "finalizing"
    /\ out' = Msg("summary", NoWord, NoGroup)
    /\ IF pc = "awaiting"
       THEN /\ incorrect_count' = incorrect_count + 1
            /\ groups' = [groups EXCEPT ![test_group] =
                            SetEntry(weights_data, chosen_word, "weight",
                                     NewWeight(weights_data[chosen_word].weight, FALSE))]
       ELSE UNCHANGED <<groups, incorrect_count>>
    /\ UNCHANGED <<disk, cmd, test_group, chosen_word, question, correct_count,
                   answers_left, commands_left>>

\* lines 278-287: KeyboardInterrupt anywhere in the loop; the summary is printed
Cancel ==
    /\ pc \in LoopStates
    /\ pc' = "finalizing"
    /\ out' = Msg(IF correct_count + incorrect_count > 0 THEN "summary" ELSE "no_answers",
                  NoWord, NoGroup)
    /\ UNCHANGED <<disk, cmd, groups, session, answers_left, commands_left>>

\* line 288: save_groups(groups) opens the file
Finalize ==
    /\ pc = "finalizing"
    /\ pc' = "saving"
    /\ disk' = Truncated
    /\ UNCHANGED <<cmd, out, groups, session, answers_left, commands_left>>

\* the full program; the observer of the test session is not running and
\* no second invocation is started
Next ==
    \/ \E raw \in WordArgs, g \in GroupNames :
           AddWord(raw, g) /\ UNCHANGED <<observer, other, single_list>>
    \/ \E raw \in WordArgs, g \in GroupNames :
           RemoveWord(raw, g) /\ UNCHANGED <<observer, other, single_list>>
    \/ \E g \in GroupNames : AddGroup(g) /\ UNCHANGED <<observer, other, single_list>>
    \/ \E g \in GroupNames : RemoveGroup(g) /\ UNCHANGED <<observer, other, single_list>>
    \/ \E raw \in WordArgs, g \in GroupNames :
           \E api_response \in Responses(Normalize(raw)) :
               LookupWord(raw, g, api_response) /\ UNCHANGED <<observer, other, single_list>>
    \/ \E g \in GroupArgs : RandomWordQuiz(g) /\ UNCHANGED <<observer, other, single_list>>
    \/ QuizWord /\ UNCHANGED <<observer, other, single_list>>
    \/ QuizInterrupt /\ UNCHANGED <<observer, other, single_list>>
    \/ \E g \in GroupArgs : WordTest(g) /\ UNCHANGED <<observer, other, single_list>>
    \/ Select /\ UNCHANGED <<observer, other, single_list>>
    \/ \E api_response \in Responses(chosen_word) :
           Present(api_response) /\ UNCHANGED <<observer, other, single_list>>
    \/ \E raw \in Guesses : Answer(raw) /\ UNCHANGED <<observer, other, single_list>>
    \/ Record /\ UNCHANGED <<observer, other, single_list>>
    \/ Cancel /\ UNCHANGED <<observer, other, single_list>>
    \/ Finalize /\ UNCHANGED <<observer, other, single_list>>
    \/ FinishSave /\ UNCHANGED <<observer, other, single_list>>
    \/ InterruptSave /\ UNCHANGED <<observer, other, single_list>>

Spec == Init /\ [][Next]_vars

(***************************************************************************)
(* The test session in depth: words are added to the default group and     *)
(* tested over several sessions, with more answers than the full program   *)
(* above is given.                                                         *)
(***************************************************************************)
InitDeep ==
    /\ disk = Absent
    /\ pc = "idle"
    /\ cmd = NoCmd
    /\ out = Msg("", NoWord, NoGroup)
    /\ groups = EmptyDict
    /\ test_group = NoGroup
    /\ chosen_word = NoWord
    /\ response = NoResponse
    /\ definition_to_show = NoDefinition
    /\ typed = NoInput
    /\ correct_count = 0
    /\ incorrect_count = 0
    /\ answers_left = DeepAnswers
    /\ commands_left = Cardinality(DeepWords)
    /\ shown_cycle = {}
    /\ recorded_cycle = {}
    /\ other_pc = "idle"
    /\ other_groups = EmptyDict
    /\ word_file = NoFile
    /\ weight_file = Absent
    /\ weights = EmptyDict

\* the word whose definitions the observer follows, and its definitions
WatchedWord == <<"a">>

WatchedDefinitions ==
    {<<"noun", "x">>, <<"noun", "y">>, <<"verb", "x">>}

\* a set of definitions after one more: a new cycle starts once all are in
NextCycle(cycle, definition) ==
    IF cycle = WatchedDefinitions THEN {definition} ELSE cycle \cup {definition}

\* the observer notes the definition displayed by Present and the definition
\* recorded by Record
Observe ==
    /\ shown_cycle' =
           IF pc = "presenting" /\ pc' = "awaiting" /\ chosen_word = WatchedWord
           THEN NextCycle(shown_cycle, definition_to_show')
           ELSE shown_cycle
    /\ recorded_cycle' =
           IF pc = "scoring" /\ pc' = "selecting" /\ chosen_word = WatchedWord
           THEN NextCycle(recorded_cycle, definition_to_show)
           ELSE recorded_cycle

NextDeep ==
    \/ \E raw \in DeepWords : AddWord(raw, "default") /\ Observe /\ UNCHANGED <<other, single_list>>
    \/ WordTest("default") /\ Observe /\ UNCHANGED <<other, single_list>>
    \/ Select /\ Observe /\ UNCHANGED <<other, single_list>>
    \/ \E api_response \in Responses(chosen_word) :
           Present(api_response) /\ Observe /\ UNCHANGED <<other, single_list>>
    \/ \E raw \in Guesses : Answer(raw) /\ Observe /\ UNCHANGED <<other, single_list>>
    \/ Record /\ Observe /\ UNCHANGED <<other, single_list>>
    \/ Cancel /\ Observe /\ UNCHANGED <<other, single_list>>
    \/ Finalize /\ Observe /\ UNCHANGED <<other, single_list>>
    \/ FinishSave /\ Observe /\ UNCHANGED <<other, single_list>>

SpecDeep == InitDeep /\ [][NextDeep]_vars

(***************************************************************************)
(* Two invocations on the same groups.json: a test session on the default  *)
(* group, and an add or remove command run from another terminal.  Each    *)
(* invocation loads the file, works on its own dict and saves it; nothing  *)
(* locks the file.                                                         *)
(***************************************************************************)
InitRace ==
    /\ disk = Absent
    /\ pc = "idle"
    /\ cmd = NoCmd
    /\ out = Msg("", NoWord, NoGroup)
    /\ groups = EmptyDict
    /\ test_group = NoGroup
    /\ chosen_word = NoWord
    /\ response = NoResponse
    /\ definition_to_show = NoDefinition
    /\ typed = NoInput
    /\ correct_count = 0
    /\ incorrect_count = 0
    /\ answers_left = RaceAnswers
    /\ commands_left = Cardinality(DeepWords)
    /\ shown_cycle = {}
    /\ recorded_cycle = {}
    /\ other_pc = "idle"
    /\ other_groups = EmptyDict
    /\ word_file = NoFile
    /\ weight_file = Absent
    /\ weights = EmptyDict

\* the commands of the second invocation
OtherCommands == {"add", "remove"}

\* what the first invocation holds; a step of the second leaves it alone
invocation == <<pc, cmd, out, groups, session, answers_left, commands_left>>

\* the second invocation runs add_word_to_group or remove_word_from_group up
\* to its call of save_groups, or returns when there is nothing to save
OtherLoad(command, raw, group_name) ==
    /\ other_pc = "idle"
    /\ LET word == Normalize(raw)
           groups0 == LoadGroups(disk)
           saves == IF command = "add"
                    THEN AddWordSaves(groups0, word, group_name)
                    ELSE RemoveWordFinds(groups0, word, group_name)
       IN  IF saves
           THEN /\ other_pc' = "loaded"
                /\ other_groups' = IF command = "add"
                                   THEN AddWordToGroup(groups0, word, group_name)
                                   ELSE RemoveWordFromGroup(groups0, word, group_name)
           ELSE /\ other_pc' = "done"
                /\ other_groups' = EmptyDict
    /\ UNCHANGED <<disk, invocation, observer, single_list>>

\* save_groups of the second invocation opens the file
OtherOpen ==
    /\ other_pc = "loaded"
    /\ other_pc' = "writing"
    /\ disk' = Truncated
    /\ UNCHANGED <<other_groups, invocation, observer, single_list>>

\* a variant of OtherDump that keeps what is in the file and adds to it
OtherDumpMerges ==
    /\ other_pc = "writing"
    /\ other_pc' = "done"
    /\ disk' = SaveGroups([g \in DOMAIN other_groups |->
                              IF g \in DOMAIN LoadGroups(disk)
                              THEN [w \in DOMAIN LoadGroups(disk)[g]
                                            \cup DOMAIN other_groups[g] |->
                                       IF w \in DOMAIN other_groups[g]
                                       THEN other_groups[g][w]
                                       ELSE LoadGroups(disk)[g][w]]
                              ELSE other_groups[g]])
    /\ UNCHANGED <<other_groups, invocation, observer, single_list>>

\* json.dump of the second invocation completes; other_groups keeps what it
\* wrote
OtherDump ==
    /\ other_pc = "writing"
    /\ other_pc' = "done"
    /\ disk' = SaveGroups(other_groups)
    /\ UNCHANGED <<other_groups, invocation, observer, single_list>>

NextRace ==
    \/ \E raw \in DeepWords : AddWord(raw, "default") /\ UNCHANGED <<observer, other, single_list>>
    \/ WordTest("default") /\ UNCHANGED <<observer, other, single_list>>
    \/ Select /\ UNCHANGED <<observer, other, single_list>>
    \/ \E api_response \in Responses(chosen_word) :
           Present(api_response) /\ UNCHANGED <<observer, other, single_list>>
    \/ \E raw \in Guesses : Answer(raw) /\ UNCHANGED <<observer, other, single_list>>
    \/ Record /\ UNCHANGED <<observer, other, single_list>>
    \/ Cancel /\ UNCHANGED <<observer, other, single_list>>
    \/ Finalize /\ UNCHANGED <<observer, other, single_list>>
    \/ FinishSave /\ UNCHANGED <<observer, other, single_list>>
    \/ \E command \in OtherCommands, raw \in WordArgs :
           OtherLoad(command, raw, "default")
    \/ OtherOpen
    \/ OtherDump

SpecRace == InitRace /\ [][NextRace]_vars

(***************************************************************************)
(* load_groups and save_groups on their own: the file is any file that an  *)
(* earlier run can have left (absent, cut short by an interrupted save, a  *)
(* saved store) or a damaged one; it is loaded, and the loaded dict is     *)
(* saved back.                                                             *)
(***************************************************************************)
\* an entry after one wrong answer
QuizzedEntry == [weight |-> 7, seen_definitions |-> << <<"noun", "x">> >>]

EntryStates == {[weight |-> 5, seen_definitions |-> <<>>], QuizzedEntry}

\* the dicts of a group, and the stores, over the words and groups above
WordDicts == UNION {[ws -> EntryStates] : ws \in SUBSET StoredWords}

Stores == UNION {[gs -> WordDicts] : gs \in SUBSET GroupNames}

\* the document an earlier save of a store left in the file
Written(store) ==
    {<<g, {<<w, store[g][w]>> : w \in DOMAIN store[g]}>> : g \in DOMAIN store}

Files ==
    {Absent, Truncated, Undecodable}
        \cup {[kind |-> "json", doc |-> Written(store)] : store \in Stores}

InitLoad ==
    /\ disk \in Files
    /\ pc = "idle"
    /\ cmd = NoCmd
    /\ out = Msg("", NoWord, NoGroup)
    /\ groups = EmptyDict
    /\ test_group = NoGroup
    /\ chosen_word = NoWord
    /\ response = NoResponse
    /\ definition_to_show = NoDefinition
    /\ typed = NoInput
    /\ correct_count = 0
    /\ incorrect_count = 0
    /\ answers_left = 0
    /\ commands_left = 0
    /\ shown_cycle = {}
    /\ recorded_cycle = {}
    /\ other_pc = "idle"
    /\ other_groups = EmptyDict
    /\ word_file = NoFile
    /\ weight_file = Absent
    /\ weights = EmptyDict

\* groups = load_groups(), the first statement of every command
Load ==
    /\ pc = "idle"
    /\ IF LoadRaises(disk)
       THEN /\ pc' = "raised"
            /\ out' = Msg("traceback", NoWord, NoGroup)
            /\ groups' = groups
       ELSE /\ pc' = "loaded"
            /\ out' = out
            /\ groups' = LoadGroups(disk)
    /\ UNCHANGED <<disk, cmd, session, answers_left, commands_left, observer, other, single_list>>

\* save_groups(groups) on the dict just loaded, run to completion
SaveBack ==
    /\ pc = "loaded"
    /\ pc' = "saved"
    /\ disk' = SaveGroups(groups)
    /\ UNCHANGED <<cmd, out, groups, session, answers_left, commands_left,
                   observer, other, single_list>>

NextLoad ==
    \/ Load
    \/ SaveBack

SpecLoad == InitLoad /\ [][NextLoad]_vars

(***************************************************************************)
(* The draw of the test session on its own: a session is at the top of its *)
(* loop on a group of two words with any weights up to MaxWeight, and one  *)
(* answer may be scored before the next draw.                              *)
(***************************************************************************)
InitDraw ==
    /\ \E wa \in 1..MaxWeight, wb \in 1..MaxWeight :
           groups = [g \in {"default"} |->
                        [w \in StoredWords |->
                            [weight |-> IF w = <<"a">> THEN wa ELSE wb,
                             seen_definitions |-> <<>>]]]
    /\ disk = SaveGroups(groups)
    /\ pc = "selecting"
    /\ cmd = Cmd("test", NoWord, "default")
    /\ out = Msg("test_started", NoWord, NoGroup)
    /\ test_group = "default"
    /\ chosen_word = NoWord
    /\ response = NoResponse
    /\ definition_to_show = NoDefinition
    /\ typed = NoInput
    /\ correct_count = 0
    /\ incorrect_count = 0
    /\ answers_left = 1
    /\ commands_left = 0
    /\ shown_cycle = {}
    /\ recorded_cycle = {}
    /\ other_pc = "idle"
    /\ other_groups = EmptyDict
    /\ word_file = NoFile
    /\ weight_file = Absent
    /\ weights = EmptyDict

NextDraw ==
    \/ Select /\ UNCHANGED <<observer, other, single_list>>
    \/ \E api_response \in Responses(chosen_word) :
           Present(api_response) /\ UNCHANGED <<observer, other, single_list>>
    \/ \E raw \in Guesses : Answer(raw) /\ UNCHANGED <<observer, other, single_list>>
    \/ Record /\ UNCHANGED <<observer, other, single_list>>

SpecDraw == InitDraw /\ [][NextDraw]_vars

(***************************************************************************)
(* The test session on a word whose lookup varies: b is added to the       *)
(* default group and tested over several sessions; each request for it may *)
(* fail, return nothing, return two definitions, or return one definition  *)
(* listed twice.                                                           *)
(***************************************************************************)
VaryWords == {<<"b">>}

InitVary ==
    /\ disk = Absent
    /\ pc = "idle"
    /\ cmd = NoCmd
    /\ out = Msg("", NoWord, NoGroup)
    /\ groups = EmptyDict
    /\ test_group = NoGroup
    /\ chosen_word = NoWord
    /\ response = NoResponse
    /\ definition_to_show = NoDefinition
    /\ typed = NoInput
    /\ correct_count = 0
    /\ incorrect_count = 0
    /\ answers_left = VaryAnswers
    /\ commands_left = Cardinality(VaryWords)
    /\ shown_cycle = {}
    /\ recorded_cycle = {}
    /\ other_pc = "idle"
    /\ other_groups = EmptyDict
    /\ word_file = NoFile
    /\ weight_file = Absent
    /\ weights = EmptyDict

NextVary ==
    \/ \E raw \in VaryWords : AddWord(raw, "default") /\ UNCHANGED <<observer, other, single_list>>
    \/ WordTest("default") /\ UNCHANGED <<observer, other, single_list>>
    \/ Select /\ UNCHANGED <<observer, other, single_list>>
    \/ \E api_response \in Responses(chosen_word) :
           Present(api_response) /\ UNCHANGED <<observer, other, single_list>>
    \/ \E raw \in Guesses : Answer(raw) /\ UNCHANGED <<observer, other, single_list>>
    \/ Record /\ UNCHANGED <<observer, other, single_list>>
    \/ Cancel /\ UNCHANGED <<observer, other, single_list>>
    \/ Finalize /\ UNCHANGED <<observer, other, single_list>>
    \/ FinishSave /\ UNCHANGED <<observer, other, single_list>>

SpecVary == InitVary /\ [][NextVary]_vars

(***************************************************************************)
(* The single-list program, pocket_dictionary.py: the words are the lines  *)
(* of word.txt and their weights are kept apart, in weights.json, which    *)
(* only the test writes.  Its constants (lines 18-20), its normalization   *)
(* of words and guesses and its scoring (lines 239, 244) are those of      *)
(* main.py.  The variables of main.py's store are not used here.           *)
(***************************************************************************)
\* get_words_from_file: the lines, stripped, without the blank ones; a missing
\* file reads as no words
GetWordsFromFile(file) == SelectSeq(file.lines, LAMBDA w : w # <<>>)

\* get_words_from_file creates the file when it is missing
Created(file) == [exists |-> TRUE, lines |-> file.lines]

WordSet(words) == {words[i] : i \in 1..Len(words)}

\* list.remove: the list without the first occurrence of the word
RECURSIVE ListRemove(_, _)
ListRemove(words, word) ==
    IF words = <<>> THEN <<>>
    ELSE IF Head(words) = word THEN Tail(words)
    ELSE <<Head(words)>> \o ListRemove(Tail(words), word)

\* save_weights: the document json.dump writes
WeightsDump(weights0) ==
    [kind |-> "json", doc |-> {<<w, weights0[w]>> : w \in DOMAIN weights0}]

\* a variant of LoadWeights that does not read weights.json
LoadWeightsFresh(words, file) == [w \in WordSet(words) |-> DEFAULT_WEIGHT]

\* load_weights: the stored weights, completed with the default weight for
\* the words of word.txt that have none, and without the words that are not
\* in word.txt
LoadWeights(words, file) ==
    LET weights0 == IF file.kind = "json" THEN JsonObject(file.doc) ELSE EmptyDict
        weights1 == [w \in DOMAIN weights0 \cup WordSet(words) |->
                        IF w \in DOMAIN weights0 THEN weights0[w] ELSE DEFAULT_WEIGHT]
        words_to_remove == {w \in DOMAIN weights1 : w \notin WordSet(words)}
    IN  [w \in DOMAIN weights1 \ words_to_remove |-> weights1[w]]

InitList ==
    /\ disk = Absent
    /\ pc = "idle"
    /\ cmd = NoCmd
    /\ out = Msg("", NoWord, NoGroup)
    /\ groups = EmptyDict
    /\ test_group = NoGroup
    /\ chosen_word = NoWord
    /\ response = NoResponse
    /\ definition_to_show = NoDefinition
    /\ typed = NoInput
    /\ correct_count = 0
    /\ incorrect_count = 0
    /\ answers_left = ListAnswers
    /\ commands_left = ListCommands
    /\ shown_cycle = {}
    /\ recorded_cycle = {}
    /\ other_pc = "idle"
    /\ other_groups = EmptyDict
    /\ word_file = NoFile
    /\ weight_file = Absent
    /\ weights = EmptyDict

\* what no step of the single-list program touches
store == <<disk, cmd, groups, test_group, response, definition_to_show,
           observer, other>>

\* add <word>: save_word_to_file
SaveWordToFile(raw) ==
    /\ pc = "idle"
    /\ LET word == Normalize(raw)
           existing_words == GetWordsFromFile(word_file)
       IN  IF word \notin WordSet(existing_words)
           THEN /\ commands_left > 0
                /\ word_file' = [exists |-> TRUE,
                                 lines |-> Append(word_file.lines, word)]
                /\ out' = Msg("added", word, NoGroup)
                /\ commands_left' = commands_left - 1
           ELSE /\ word_file' = Created(word_file)
                /\ out' = Msg("already_in_list", word, NoGroup)
                /\ commands_left' = commands_left
    /\ UNCHANGED <<store, pc, chosen_word, typed, correct_count, incorrect_count,
                   answers_left, weight_file, weights>>

\* remove <word>: remove_word_from_file rewrites word.txt
RemoveWordFromFile(raw) ==
    /\ pc = "idle"
    /\ LET word == Normalize(raw)
           words == GetWordsFromFile(word_file)
       IN  IF word \in WordSet(words)
           THEN /\ commands_left > 0
                /\ word_file' = [exists |-> TRUE, lines |-> ListRemove(words, word)]
                /\ out' = Msg("removed", word, NoGroup)
                /\ commands_left' = commands_left - 1
           ELSE /\ word_file' = Created(word_file)
                /\ out' = Msg("word_not_found", word, NoGroup)
                /\ commands_left' = commands_left
    /\ UNCHANGED <<store, pc, chosen_word, typed, correct_count, incorrect_count,
                   answers_left, weight_file, weights>>

\* test, lines 203-214: load the weights and enter the loop, or return
ListWordTest ==
    /\ pc = "idle"
    /\ word_file' = Created(word_file)
    /\ LET loaded == LoadWeights(GetWordsFromFile(word_file), weight_file)
       IN  IF DOMAIN loaded = {}
           THEN /\ out' = Msg("list_empty", NoWord, NoGroup)
                /\ UNCHANGED <<pc, weights>>
           ELSE /\ out' = Msg("test_started", NoWord, NoGroup)
                /\ pc' = "testing"
                /\ weights' = loaded
    /\ correct_count' = 0
    /\ incorrect_count' = 0
    /\ UNCHANGED <<store, chosen_word, typed, answers_left, commands_left,
                   weight_file>>

\* one turn of the loop, lines 218-244: a word is drawn, its definitions are
\* shown, the guess is read and scored
ListAnswer(word, raw) ==
    /\ pc = "testing"
    /\ answers_left > 0
    /\ word \in DOMAIN weights
    /\ chosen_word' = word
    /\ typed' = raw
    /\ LET correct == Normalize(raw) = word
       IN  /\ correct_count' = IF correct THEN correct_count + 1 ELSE correct_count
           /\ incorrect_count' = IF correct THEN incorrect_count ELSE incorrect_count + 1
           /\ out' = Msg(IF correct THEN "correct" ELSE "incorrect", NoWord, NoGroup)
           /\ weights' = [weights EXCEPT ![word] = NewWeight(weights[word], correct)]
    /\ answers_left' = answers_left - 1
    /\ UNCHANGED <<store, pc, commands_left, word_file, weight_file>>

\* lines 246-261: KeyboardInterrupt; the summary, save_weights, and the end
ListCancel ==
    /\ pc = "testing"
    /\ weight_file' = WeightsDump(weights)
    /\ out' = Msg("keep_practicing", NoWord, NoGroup)
    /\ pc' = "idle"
    /\ weights' = EmptyDict
    /\ chosen_word' = NoWord
    /\ typed' = NoInput
    /\ correct_count' = 0
    /\ incorrect_count' = 0
    /\ UNCHANGED <<store, answers_left, commands_left, word_file>>

NextList ==
    \/ \E raw \in WordArgs : SaveWordToFile(raw)
    \/ \E raw \in WordArgs : RemoveWordFromFile(raw)
    \/ ListWordTest
    \/ \E word \in StoredWords, raw \in Guesses : ListAnswer(word, raw)
    \/ ListCancel

SpecList == InitList /\ [][NextList]_vars

(***************************************************************************)
(* Properties.                                                             *)
(***************************************************************************)
\* the entries of a groups dict, and of the document on disk
Entries(dict) ==
    UNION {{dict[g][w] : w \in DOMAIN dict[g]} : g \in DOMAIN dict}

StoredEntries == {e[2] : e \in UNION {m[2] : m \in disk.doc}}

\* the entry of the word being tested
Tested(dict) == dict[test_group][chosen_word]

StoredWord(group_name, word) == LoadGroups(disk)[group_name][word]

Stored(group_name, word) ==
    /\ disk.kind = "json"
    /\ group_name \in DOMAIN LoadGroups(disk)
    /\ word \in DOMAIN LoadGroups(disk)[group_name]

(* C1: every word entry has weight >= 1 in every reachable state, in the   *)
(* invocation's groups dict and in the document on disk.                   *)
C1_WeightAtLeastOne ==
    /\ \A e \in Entries(groups) : e.weight >= 1
    /\ \A e \in StoredEntries : e.weight >= 1

\* the floor has acted and its result is on disk: five correct answers on a
\* word that started at 5
C1_FloorReachedOnDisk ==
    /\ pc = "idle"
    /\ answers_left = 0
    /\ Stored("default", <<"a">>)
    /\ StoredWord("default", <<"a">>).weight = 1

\* the guesses that are the word once lowercased and trimmed, written out
IsTheWord(line, word) ==
    \/ word = <<"a">> /\ line \in {<<"a">>, <<"A", " ">>}
    \/ word = <<"b">> /\ line = <<"b">>

(* C2: a scoring step sets the weight of the selected word to              *)
(* max(1, w - 1) when the normalized guess equals the word, and to w + 2   *)
(* otherwise; no other bound applies.                                      *)
C2_WeightDelta ==
    [][(pc = "awaiting" /\ pc' = "scoring") =>
         LET w == Tested(groups).weight
         IN  IF IsTheWord(typed', chosen_word)
             THEN Tested(groups').weight = (IF w - 1 >= 1 THEN w - 1 ELSE 1)
             ELSE Tested(groups').weight = w + 2]_vars

\* one wrong and two correct answers in a session have brought a fresh entry
\* back to 5 (5 -> 7 -> 6 -> 5 in some order of the answers), the last guess
\* typed in capitals with a trailing blank
C2_BackToFive ==
    /\ pc = "scoring"
    /\ answers_left = DeepAnswers - 3
    /\ incorrect_count = 1
    /\ correct_count = 2
    /\ typed = <<"A", " ">>
    /\ Tested(groups).weight = 5

Range(seq) == {seq[i] : i \in 1..Len(seq)}

\* Present displays a definition of the watched word
ShowsWatched ==
    pc = "presenting" /\ pc' = "awaiting" /\ chosen_word = WatchedWord

\* Record appends the displayed definition of the watched word
RecordsWatched ==
    pc = "scoring" /\ pc' = "selecting" /\ chosen_word = WatchedWord

\* Present empties the seen_definitions of the watched word
ResetsWatched ==
    /\ ShowsWatched
    /\ Tested(groups).seen_definitions # <<>>
    /\ Tested(groups').seen_definitions = <<>>

(* C3, as stated: over all displays of a definition of the watched word,   *)
(* cancelled questions and later sessions included, no definition is       *)
(* displayed a second time before all have been displayed, and             *)
(* seen_definitions is reset only after all have been displayed.           *)
C3_NoRepeatDisplayed ==
    [][/\ ShowsWatched =>
            (definition_to_show' \notin shown_cycle \/ shown_cycle = WatchedDefinitions)
       /\ ResetsWatched => shown_cycle = WatchedDefinitions]_vars

(* C3, amended: over all questions on the watched word that were answered  *)
(* and recorded, in this and earlier sessions, no definition is recorded a *)
(* second time before all have been recorded, and seen_definitions is      *)
(* reset only when it holds all of them.                                   *)
C3_NoRepeatRecorded ==
    [][/\ RecordsWatched =>
            (definition_to_show \notin recorded_cycle
                \/ recorded_cycle = WatchedDefinitions)
       /\ ResetsWatched =>
            /\ Range(Tested(groups).seen_definitions) = WatchedDefinitions
            /\ recorded_cycle = WatchedDefinitions]_vars

\* a later session starts the next cycle: the three definitions were
\* recorded before this session, seen_definitions has just been reset and a
\* definition is on display
C3_NextCycleStarts ==
    /\ pc = "awaiting"
    /\ chosen_word = WatchedWord
    /\ correct_count + incorrect_count = 0
    /\ answers_left = DeepAnswers - 3
    /\ recorded_cycle = WatchedDefinitions
    /\ Len(StoredWord("default", WatchedWord).seen_definitions) = 3
    /\ Tested(groups).seen_definitions = <<>>

\* the API gave no definition: the request failed, the body has no entry,
\* or the entry lists no definition
NoDefinitions(api_response) ==
    \/ ~api_response.ok
    \/ api_response.data = <<>>
    \/ \A i \in 1..Len(api_response.data[1].meanings) :
           api_response.data[1].meanings[i].definitions = <<>>

(* C4: when the lookup for the selected word fails or returns no           *)
(* definitions, the iteration changes nothing: every entry, both counters  *)
(* and the file are as before the draw, and the loop is back at selecting  *)
(* a word.                                                                 *)
C4_SkipChangesNothing ==
    [][(pc = "presenting" /\ response' # NoResponse /\ NoDefinitions(response')) =>
         /\ groups' = groups
         /\ correct_count' = correct_count
         /\ incorrect_count' = incorrect_count
         /\ disk' = disk
         /\ test_group' = test_group
         /\ pc' = "selecting"]_vars

\* a word was skipped after an answer had been scored in the session: the
\* API returned an entry without meanings
C4_SkippedAfterAnswer ==
    /\ pc = "selecting"
    /\ out.text = "skipping"
    /\ response = Body(<<>>)
    /\ correct_count + incorrect_count = 1
    /\ \E e \in Entries(groups) : e.weight # DEFAULT_WEIGHT

\* the test session has ended after its save: "Keep practicing!" is printed
Terminates ==
    pc = "saving" /\ cmd.command = "test" /\ out'.text = "keep_practicing"

(* C5: a cancellation can be delivered in every state of the test loop; it *)
(* leads to the summary and the save with the groups dict as it stood, and *)
(* when the session has terminated the file holds exactly that dict.       *)
C5_CancelSavesMemory ==
    /\ [](pc \in LoopStates => ENABLED Cancel)
    /\ [](pc = "finalizing" => ENABLED Finalize)
    /\ [](pc = "saving" => ENABLED FinishSave)
    /\ [][/\ (pc \in LoopStates /\ pc' \notin LoopStates) =>
              (pc' = "finalizing" /\ groups' = groups /\ disk' = disk)
          /\ pc = "finalizing" => (pc' = "saving" /\ groups' = groups)
          /\ Terminates =>
              (pc' = "idle" /\ disk'.kind = "json" /\ JsonLoad(disk'.doc) = groups)]_vars

\* a session cancelled between the weight update and the append has
\* terminated: the file holds the raised weight and the empty history
C5_MidScoringSaved ==
    /\ pc = "idle"
    /\ out.text = "keep_practicing"
    /\ Stored("default", <<"a">>)
    /\ StoredWord("default", <<"a">>) = [weight |-> 7, seen_definitions |-> <<>>]

\* the session was cancelled at the prompt: a definition is on display and
\* no line has been read
CancelledAtPrompt ==
    /\ pc \in {"finalizing", "saving"}
    /\ cmd.command = "test" \/ pc = "finalizing"
    /\ definition_to_show # NoDefinition
    /\ typed = NoInput

(* C6: a cancellation that arrives at the prompt does not score the        *)
(* question on display: the weight of the selected word and both counters  *)
(* stay as they were when it was presented, the definition is not appended *)
(* to seen_definitions, and the entry is saved that way.                   *)
C6_InFlightNotScored ==
    [][/\ (pc = "awaiting" /\ pc' = "finalizing") =>
            /\ Tested(groups') = Tested(groups)
            /\ correct_count' = correct_count
            /\ incorrect_count' = incorrect_count
            /\ definition_to_show \notin Range(Tested(groups').seen_definitions)
       /\ (CancelledAtPrompt /\ pc' # "idle") =>
            /\ Tested(groups') = Tested(groups)
            /\ correct_count' = correct_count
            /\ incorrect_count' = incorrect_count
       /\ (CancelledAtPrompt /\ Terminates) =>
            /\ JsonLoad(disk'.doc)[test_group][chosen_word] = Tested(groups)
            /\ definition_to_show \notin Range(Tested(groups).seen_definitions)]_vars

\* a session with one scored answer is cancelled at the prompt of its
\* second question and prints its summary
C6_CancelledSecondQuestion ==
    /\ pc = "finalizing"
    /\ CancelledAtPrompt
    /\ out.text = "summary"
    /\ correct_count + incorrect_count = 1

SomeGroupHasWord(dict) == \E g \in DOMAIN dict : DOMAIN dict[g] # {}

(* C7: save_groups is atomic and a full replacement: from the moment it    *)
(* starts, a load of the file yields the complete prior store or the       *)
(* complete new one, never an empty or partial one; once it has completed  *)
(* the file holds exactly the saved store.                                 *)
C7_SaveIsAtomic ==
    [][/\ (pc # "saving" /\ pc' = "saving") =>
            LoadGroups(disk') \in {LoadGroups(disk), groups'}
       /\ (pc = "saving" /\ pc' = "idle" /\ out'.text # "traceback") =>
            (disk'.kind = "json" /\ LoadGroups(disk') = groups)]_vars

(* C8: a test or random session started without a group, on a store in    *)
(* which some group contains a word, runs on a group that contains a word  *)
(* and never reports that no words were found.                             *)
C8_ChosenGroupHasWords ==
    /\ (pc = "idle" /\ out.text = "no_words") => ~SomeGroupHasWord(LoadGroups(disk))
    /\ pc \in LoopStates \cup {"quiz"} => DOMAIN groups[test_group] # {}

\* a test or quiz enters its loop
EntersLoop == pc = "idle" /\ pc' \in {"selecting", "quiz"}

\* a test or quiz reports an empty pool and returns
ReportsEmptyPool ==
    /\ pc = "idle"
    /\ pc' = "idle"
    /\ out'.text \in {"list_empty", "group_empty", "no_words"}

(* C9: a test whose pool is empty reports it and returns: the loop is      *)
(* entered only on a group of the loaded store that has a word, and a      *)
(* report of an empty pool comes with no write to the file and describes   *)
(* the store as loaded.                                                    *)
C9_EmptyPoolNeverStarts ==
    [][/\ EntersLoop =>
            /\ test_group' \in DOMAIN LoadGroups(disk)
            /\ DOMAIN LoadGroups(disk)[test_group'] # {}
            /\ groups' = LoadGroups(disk)
            /\ disk' = disk
       /\ ReportsEmptyPool =>
            /\ disk' = disk
            /\ (out'.text = "list_empty") => (DOMAIN LoadGroups(disk) = {})
            /\ (out'.text = "group_empty") =>
                   (out'.group \notin DOMAIN LoadGroups(disk)
                       \/ DOMAIN LoadGroups(disk)[out'.group] = {})
            /\ (out'.text = "no_words") =>
                   (DOMAIN LoadGroups(disk)[out'.group] = {})]_vars

\* the store has no group at all (the last one was removed) and a session
\* has reported the empty list and returned
C9_NoGroupsReported ==
    /\ pc = "idle"
    /\ out.text = "list_empty"
    /\ disk.kind = "json"
    /\ disk.doc = {}

(* C10: add_word of a word already in the group is a no-op: the groups     *)
(* dict is returned as loaded, nothing is saved, and the file is the same  *)
(* after the call, whatever weight and history the entry has.              *)
C10_AddExistingIsNoOp ==
    /\ [](\A raw \in WordArgs, g \in GroupNames :
             Stored(g, Normalize(raw)) =>
                 /\ ~AddWordSaves(LoadGroups(disk), Normalize(raw), g)
                 /\ AddWordToGroup(LoadGroups(disk), Normalize(raw), g)
                        = LoadGroups(disk))
    /\ [][/\ (pc = "idle" /\ pc' = "idle" /\ out'.text = "already_in_group") =>
               (disk' = disk /\ Stored(out'.group, out'.word))
          /\ (pc = "idle" /\ pc' = "saving" /\ cmd'.command = "add") =>
               ~Stored(cmd'.group, Normalize(cmd'.word))]_vars

\* a tested word is added again: it keeps its raised weight and its history
C10_TestedWordAddedAgain ==
    /\ pc = "idle"
    /\ out = Msg("already_in_group", <<"a">>, "default")
    /\ Stored("default", <<"a">>)
    /\ StoredWord("default", <<"a">>).weight = 7
    /\ Len(StoredWord("default", <<"a">>).seen_definitions) = 1

\* the word a command-line argument names once lowercased and trimmed,
\* written out
Names(raw, word) ==
    \/ raw = <<" ", "A">> /\ word = <<"a">>
    \/ raw = <<"b">> /\ word = <<"b">>

\* a dict is another one with one key deleted and the other values kept
Without(dict_after, dict_before, key) ==
    /\ DOMAIN dict_after = DOMAIN dict_before \ {key}
    /\ \A k \in DOMAIN dict_after : dict_after[k] = dict_before[k]

(* C11: a word that is added when it is not in the group gets the entry    *)
(* {weight: 5, seen_definitions: []}, in the groups dict that is saved and *)
(* in the file once the save has completed, whatever the store held        *)
(* before: in particular when the word had been in the group with another  *)
(* weight and history and was removed, alone or with its group.            *)
C11_AddedEntryIsFresh ==
    /\ [](\A w \in StoredWords, g \in GroupNames :
             ~Stored(g, w) =>
                 AddWordToGroup(LoadGroups(disk), w, g)[g][w]
                     = [weight |-> 5, seen_definitions |-> <<>>])
    /\ [][/\ (pc = "idle" /\ pc' = "saving" /\ cmd'.command = "add") =>
               (\E w \in StoredWords :
                    /\ Names(cmd'.word, w)
                    /\ groups'[cmd'.group][w] = [weight |-> 5, seen_definitions |-> <<>>])
          /\ (pc = "saving" /\ pc' = "idle" /\ out'.text = "added") =>
               /\ disk'.kind = "json"
               /\ JsonLoad(disk'.doc)[out'.group][out'.word]
                      = [weight |-> 5, seen_definitions |-> <<>>]]_vars

\* a word has been added to g1 after the group, holding a word that had been
\* scored in a test, was emptied or removed: three commands and one answer
C11_AddedAfterRemoval ==
    /\ pc = "idle"
    /\ out = Msg("added", <<"a">>, "g1")
    /\ commands_left = MaxCommands - 3
    /\ answers_left = MaxAnswers - 1
    /\ LoadGroups(disk)["g1"] = (<<"a">> :> [weight |-> 5, seen_definitions |-> <<>>])

(* C12: remove_word deletes exactly the named entry of the named group     *)
(* when it is there and keeps every other entry and group, and the file    *)
(* holds that store once the save has completed; when the group is absent  *)
(* or the word is not in it, not-found is reported and the file is         *)
(* untouched, so no group is created.                                      *)
C12_RemoveWordExact ==
    [][/\ (pc = "idle" /\ pc' = "saving" /\ cmd'.command = "remove") =>
            (\E w \in StoredWords :
                 /\ Names(cmd'.word, w)
                 /\ Stored(cmd'.group, w)
                 /\ DOMAIN groups' = DOMAIN LoadGroups(disk)
                 /\ Without(groups'[cmd'.group], LoadGroups(disk)[cmd'.group], w)
                 /\ \A g \in DOMAIN groups' \ {cmd'.group} :
                        groups'[g] = LoadGroups(disk)[g])
       /\ (pc = "saving" /\ pc' = "idle" /\ out'.text = "removed") =>
            (disk'.kind = "json" /\ JsonLoad(disk'.doc) = groups)
       /\ (pc = "idle" /\ pc' = "idle" /\ out'.text = "word_not_found") =>
            (disk' = disk /\ ~Stored(out'.group, out'.word))]_vars

\* the word a was in both groups and has been removed from g1: g1 is still
\* there, empty, and the entry in the default group is kept
C12_RemovedFromOneGroup ==
    /\ pc = "idle"
    /\ out = Msg("removed", <<"a">>, "g1")
    /\ Stored("default", <<"a">>)
    /\ "g1" \in DOMAIN LoadGroups(disk)
    /\ DOMAIN LoadGroups(disk)["g1"] = {}

(* C13: add_group of an existing name reports it and leaves the file, and  *)
(* so the entries of the group, untouched; remove_group of a name that is  *)
(* not there reports it and leaves the file untouched; remove_group of an  *)
(* existing name saves the store without that group and with every other   *)
(* group as it was.                                                        *)
C13_GroupOpsRedundant ==
    [][/\ (pc = "idle" /\ pc' = "idle" /\ out'.text = "group_exists") =>
            (disk' = disk /\ out'.group \in DOMAIN LoadGroups(disk))
       /\ (pc = "idle" /\ pc' = "saving" /\ cmd'.command = "add_group") =>
            (/\ cmd'.group \notin DOMAIN LoadGroups(disk)
             /\ Without(LoadGroups(disk), groups', cmd'.group)
             /\ groups'[cmd'.group] = <<>>)
       /\ (pc = "idle" /\ pc' = "idle" /\ out'.text = "group_not_found") =>
            (disk' = disk /\ out'.group \notin DOMAIN LoadGroups(disk))
       /\ (pc = "idle" /\ pc' = "saving" /\ cmd'.command = "remove_group") =>
            (/\ cmd'.group \in DOMAIN LoadGroups(disk)
             /\ Without(groups', LoadGroups(disk), cmd'.group))
       /\ (pc = "saving" /\ pc' = "idle"
              /\ out'.text \in {"group_added", "group_removed"}) =>
            (disk'.kind = "json" /\ JsonLoad(disk'.doc) = groups)]_vars

\* add_group was given the name of a group whose word had been scored in a
\* test: the entry keeps its raised weight and its history
C13_ExistingGroupKept ==
    /\ pc = "idle"
    /\ out = Msg("group_exists", NoWord, "g1")
    /\ Stored("g1", <<"a">>)
    /\ StoredWord("g1", <<"a">>).weight = 7
    /\ Len(StoredWord("g1", <<"a">>).seen_definitions) = 1

(* C14: a test session does not write the file while its loop runs: it     *)
(* starts from the groups as loaded, every step of the loop leaves the     *)
(* file as it is, however many answers are scored, and the session writes  *)
(* once, after the summary: the file is opened when the loop has been left *)
(* and holds the groups dict when the session ends.                        *)
C14_OneSavePerSession ==
    [][/\ (pc = "idle" /\ pc' = "selecting") =>
            (disk' = disk /\ groups' = LoadGroups(disk))
       /\ (pc \in LoopStates) =>
            (disk' = disk /\ pc' \in LoopStates \cup {"finalizing"})
       /\ (pc = "finalizing") => (pc' = "saving" /\ disk'.kind = "partial")
       /\ (pc = "saving" /\ cmd.command = "test") =>
            (pc' = "idle" /\ disk'.kind = "json" /\ JsonLoad(disk'.doc) = groups)]_vars

\* three answers have been scored and recorded in a session and the file
\* still holds the entry as it was added
C14_ThreeAnswersUnsaved ==
    /\ pc = "selecting"
    /\ correct_count + incorrect_count = 3
    /\ Len(groups["default"][<<"a">>].seen_definitions) = 3
    /\ Stored("default", <<"a">>)
    /\ StoredWord("default", <<"a">>) = [weight |-> 5, seen_definitions |-> <<>>]

\* the length of seen_definitions after k answers on a word of three
\* definitions that started with none seen
SeenAfter(k) == IF k = 0 THEN 0 ELSE ((k - 1) % 3) + 1

(* C15: for the word a, whose lookup always returns the same three         *)
(* definitions, in a session that loaded the entry with nothing seen:      *)
(* after 3 scored answers, correct or not, seen_definitions has length 3   *)
(* and holds each definition once; the presentation of the 4th question    *)
(* empties it before choosing, so that it has length 1 after the 4th       *)
(* scored answer.                                                          *)
C15_ThreeThenReset ==
    /\ []((/\ pc = "selecting"
           /\ Stored("default", <<"a">>)
           /\ StoredWord("default", <<"a">>).seen_definitions = <<>>) =>
             LET k == correct_count + incorrect_count
                 seen == groups["default"][<<"a">>].seen_definitions
             IN  /\ Len(seen) = SeenAfter(k)
                 /\ Cardinality(Range(seen)) = Len(seen)
                 /\ (k = 3) => (Range(seen) = WatchedDefinitions))
    /\ [][ShowsWatched =>
             IF Len(Tested(groups).seen_definitions) = 3
             THEN Tested(groups').seen_definitions = <<>>
             ELSE Tested(groups').seen_definitions = Tested(groups).seen_definitions]_vars

\* the 4th answer of a session, after correct and incorrect ones, has been
\* recorded: one definition is seen
C15_FourthAnswerRecorded ==
    /\ pc = "selecting"
    /\ correct_count >= 1
    /\ incorrect_count >= 1
    /\ correct_count + incorrect_count = 4
    /\ StoredWord("default", <<"a">>).seen_definitions = <<>>
    /\ Len(groups["default"][<<"a">>].seen_definitions) = 1

\* a save of the first invocation completes
FirstSaves == pc = "saving" /\ pc' = "idle"

\* a save of the second invocation completes
SecondSaves == other_pc = "writing" /\ other_pc' = "done"

C17_LoadNeverRaises ==
    /\ pc # "raised"
    /\ pc = "loaded" =>
         /\ disk.kind # "json" =>
                (DOMAIN groups = {"default"} /\ DOMAIN groups["default"] = {})
         /\ disk.kind = "json" =>
                (groups \in Stores /\ disk.doc = Written(groups))
         /\ \A g \in DOMAIN groups : groups[g] \in WordDicts

(* C18: saving back what was just loaded leaves the content of the file as *)
(* it was: the same groups, the same words in each, and the same weight    *)
(* and seen_definitions for each word; a file that held no store loads the *)
(* same before and after.                                                  *)
C18_SaveLoadRoundTrip ==
    [][(pc = "loaded" /\ pc' = "saved") =>
         /\ disk.kind = "json" => disk' = disk
         /\ LoadGroups(disk') = LoadGroups(disk)]_vars

\* a store with an empty group and a word with a raised weight and a seen
\* definition has been loaded and saved back
C18_QuizzedStoreSavedBack ==
    /\ pc = "saved"
    /\ disk = [kind |-> "json",
               doc |-> {<<"default", {}>>, <<"g1", {<< <<"a">>, QuizzedEntry >>}>>}]

\* of the equally likely values of the random number, those that draw a word
Draws(data, word) == {x \in 0..(Total(data) - 1) : Choices(data, x) = word}

(* C19: at every draw the word is chosen with probability proportional to  *)
(* its weight as it stands then: of the w1 + w2 equally likely values of   *)
(* the random number, exactly as many as its weight give a word, and only  *)
(* words of the pool are drawn; with weights a: 1 and b: 9, b is given by  *)
(* more values than a.                                                     *)
C19_DrawProportional ==
    /\ [](pc = "selecting" =>
            /\ Total(weights_data)
                   = weights_data[<<"a">>].weight + weights_data[<<"b">>].weight
            /\ \A w \in DOMAIN weights_data :
                   Cardinality(Draws(weights_data, w)) = weights_data[w].weight
            /\ (weights_data[<<"a">>].weight = 1 /\ weights_data[<<"b">>].weight = 9) =>
                   Cardinality(Draws(weights_data, <<"b">>))
                       > Cardinality(Draws(weights_data, <<"a">>)))
    /\ [][(pc = "selecting" /\ pc' = "presenting") =>
             chosen_word' \in Candidates(weights_data)]_vars

\* b has been drawn with the weights a: 1, b: 9 that the answer scored in
\* the session left
C19_DrawnAfterScoring ==
    /\ pc = "presenting"
    /\ chosen_word = <<"b">>
    /\ answers_left = 0
    /\ weights_data[<<"a">>].weight = 1
    /\ weights_data[<<"b">>].weight = 9

\* a scoring step: the guess is scored, or the shown definition recorded
Scores ==
    \/ pc = "awaiting" /\ pc' = "scoring"
    \/ pc = "scoring" /\ pc' = "selecting"

(* C20: a scoring step changes no entry but that of the selected word in   *)
(* the group of the session: the groups and the words of each group stay   *)
(* the same, and every other entry, in the pool and in every other group,  *)
(* an entry of the same word in another group included, keeps its weight   *)
(* and seen_definitions; the save at the end of the session writes the     *)
(* dict as it then is.                                                     *)
C20_ScoringFrame ==
    [][/\ Scores =>
            /\ DOMAIN groups' = DOMAIN groups
            /\ \A g \in DOMAIN groups :
                   /\ DOMAIN groups'[g] = DOMAIN groups[g]
                   /\ \A w \in DOMAIN groups[g] :
                          (g # test_group \/ w # chosen_word) =>
                              (groups'[g][w] = groups[g][w])
       /\ Terminates =>
            (disk'.kind = "json" /\ JsonLoad(disk'.doc) = groups)]_vars

\* the word a is in both groups; a session on g1 has scored a wrong answer
\* on it and has saved: the entry in the default group is as it was added
C20_SameWordOtherGroupKept ==
    /\ pc = "idle"
    /\ out.text = "keep_practicing"
    /\ Stored("default", <<"a">>)
    /\ Stored("g1", <<"a">>)
    /\ StoredWord("default", <<"a">>) = [weight |-> 5, seen_definitions |-> <<>>]
    /\ StoredWord("g1", <<"a">>).weight = 7
    /\ Len(StoredWord("g1", <<"a">>).seen_definitions) = 1

\* a list holds no element twice
NoDuplicates(seq) == \A i, j \in 1..Len(seq) : seq[i] = seq[j] => i = j

(* C21: no entry, in the groups dict or in the file, has a definition      *)
(* twice in its seen_definitions, whatever each lookup returned; the       *)
(* definition on display, which is the one that will be appended, is not   *)
(* in the seen_definitions of the selected word.                           *)
C21_SeenHasNoDuplicates ==
    /\ \A e \in Entries(groups) \cup StoredEntries : NoDuplicates(e.seen_definitions)
    /\ pc \in {"awaiting", "scoring"} =>
           definition_to_show \notin Range(Tested(groups).seen_definitions)

\* the first lookup returned two definitions and x was recorded; the second
\* returned y listed twice, y is on display and the answer has been scored
C21_DuplicateListAfterOther ==
    /\ pc = "scoring"
    /\ answers_left = VaryAnswers - 2
    /\ response = Body(<<Meaning("noun", <<"y", "y">>)>>)
    /\ definition_to_show = <<"noun", "y">>
    /\ Tested(groups).seen_definitions = << <<"noun", "x">> >>

\* the words that are lines of word.txt, and those that have a weight in
\* weights.json
InWordFile(word) == \E i \in 1..Len(word_file.lines) : word_file.lines[i] = word

InWeightFile(word) ==
    weight_file.kind = "json" /\ \E m \in weight_file.doc : m[1] = word

StoredWeight(word) == (CHOOSE m \in weight_file.doc : m[1] = word)[2]

\* a dict has exactly the words of word.txt, each with its weight in
\* weights.json if it has one there and with 5 otherwise
Synchronized(dict) ==
    /\ \A w \in StoredWords : w \in DOMAIN dict <=> InWordFile(w)
    /\ DOMAIN dict \subseteq StoredWords
    /\ \A w \in DOMAIN dict :
           dict[w] = IF InWeightFile(w) THEN StoredWeight(w) ELSE 5

(* C22: in the single-list program load_weights returns exactly the words  *)
(* of word.txt: with its stored weight for a word that weights.json has,   *)
(* with 5 for a word it has not, and without the words that are only in    *)
(* weights.json; the test starts from that dict; and a word added while    *)
(* weights.json still has a weight for it, which is the case after it was  *)
(* removed and no test has saved since, gets that weight back.             *)
C22_LoadWeightsSyncs ==
    /\ [](Synchronized(LoadWeights(GetWordsFromFile(word_file), weight_file)))
    /\ [][/\ (pc = "idle" /\ pc' = "testing") => Synchronized(weights')
          /\ \A w \in StoredWords :
                 (/\ ~InWordFile(w)
                  /\ InWeightFile(w)
                  /\ word_file'.lines = Append(word_file.lines, w)) =>
                     /\ weight_file' = weight_file
                     /\ LoadWeights(GetWordsFromFile(word_file'), weight_file')[w]
                            = StoredWeight(w)]_vars

\* a test has started on b and a: weights.json has 7 for a and nothing for
\* b, and a comes after b in word.txt, so a was scored, saved, removed, and
\* added again after b, and no test has saved since; a has its old weight
C22_OldWeightBack ==
    /\ pc = "testing"
    /\ word_file.lines = << <<"b">>, <<"a">> >>
    /\ weight_file = [kind |-> "json", doc |-> {<< <<"a">>, 7 >>}]
    /\ weights = (<<"a">> :> 7 @@ <<"b">> :> 5)

=============================================================================
